---- MODULE Spec2Model ----
(***************************************************************************)
(* Model of the AzureBlobStorage facade.  Three copies of the class live   *)
(* in the repository:                                                      *)
(*   "main"  src/azure_integrator.py              (the full class)         *)
(*   "pkg"   src/src/azure_integrator/__init__.py (a draft)                *)
(*   "part"  src/unnamed/part_000                 (a shorter draft)        *)
(* One behaviour of the model is one process using one of the copies       *)
(* against one storage account.  Every handler is one atomic action.       *)
(* Python strings are TLA+ strings; an f-string "A: {x}" is the sequence   *)
(* <<"A">> \o x of its segments, so that wrapping and nesting of error     *)
(* texts stay visible.                                                     *)
(***************************************************************************)
EXTENDS Integers, Sequences, FiniteSets, TLC

VARIABLES variant, env, account, facade, last

vars == <<variant, env, account, facade, last>>

----------------------------------------------------------------------------
(* Bounds and value sets *)

\* raw byte payloads are numbered 1..NumPayloads
NumPayloads == 2

Variants == {"main", "pkg", "part"}

\* Python None; no value set below contains it
None == "<None>"

ContainerNames == {"c1", "c2"}
\* the order in which the account enumerates its containers
ContainerOrder == <<"c1", "c2">>

BlobNames == {"a/1", "a/2", "b/1"}

\* the characters of every string that is used as a blob name or a name filter
Chars(s) ==
  CASE s = ""    -> <<>>
    [] s = "a/"  -> <<"a", "/">>
    [] s = "/1"  -> <<"/", "1">>
    [] s = "a/1" -> <<"a", "/", "1">>
    [] s = "a/2" -> <<"a", "/", "2">>
    [] s = "b/1" -> <<"b", "/", "1">>

Prefixes == {"", "a/", "/1"}
Suffixes == {"/1"}

\* values an argument or an environment key can have for the two credentials
SecretArgs    == {None, "", "SEC"}
SecretEnvs    == {None, "", "ENVSEC"}
ContainerArgs == {None, "", "c1"}
ContainerEnvs == {None, "", "c2"}

\* bytes: fmt says which codec (if any) wrote them, data which payload or table
RawBytes == [fmt : {"raw"}, data : 1..NumPayloads]
\* the tables (pandas DataFrames) a caller hands over, numbered: tables 2k-1
\* and 2k have the same k columns, the odd one with the default row index
\* (0, 1, ...), the even one with row labels of its own
NumFrames == 2
DataFrames == 1..NumFrames
ColumnNames == <<"x", "y", "z", "w">>
\* the columns of a table, in order: each a name and its cells
Columns(t) ==
  LET k == (t + 1) \div 2
  IN  [i \in 1..k |-> [name |-> ColumnNames[i], cells |-> <<i, k + i>>]]
\* whether a table carries row labels other than the default 0, 1, ...
HasRowLabels(t) == t % 2 = 0
\* the table of the same columns with the default row index
DefaultIndexed(t) == IF HasRowLabels(t) THEN t - 1 ELSE t
\* what a caller hands upload_blob as data: bytes, or text (given by its bytes)
UploadData == [type : {"bytes"}, bytes : RawBytes] \cup [type : {"str"}, bytes : {[fmt |-> "raw", data |-> 1]}]

----------------------------------------------------------------------------
(* Python helpers *)

\* truth value of an Optional[str]: None and "" are falsy
Truthy(x) == x # None /\ x # ""

\* PyOr with a fault seeded: the second operand wins when it is truthy
PyOrSecondFirst(a, b) == IF Truthy(b) THEN b ELSE a

\* `a or b`
PyOr(a, b) == IF Truthy(a) THEN a ELSE b

\* os.getenv(key): the value, or None when the key is not set
getenv(key) == env[key]

\* an exception object: its class, str(e), and str() of the exception that
\* was being handled when it was raised (Python's implicit chaining)
Exc(kind, msg, origin) == [kind |-> kind, msg |-> msg, origin |-> origin]

\* an exception of the storage SDK or of a codec
CollabExc(kind, desc) == Exc(kind, <<desc>>, <<desc>>)

\* f"{head}: {str(e)}"
FString(head, e) == <<head>> \o e.msg

\* what a call leaves behind: returned value or raised exception, and the
\* delegated calls it made, in order
Returned(v, calls) ==
  [status |-> "ok", kind |-> "", msg |-> <<>>, origin |-> <<>>, value |-> <<v>>,
   calls |-> calls]
Raised(e, calls) ==
  [status |-> "raised", kind |-> e.kind, msg |-> e.msg, origin |-> e.origin,
   value |-> <<>>, calls |-> calls]

----------------------------------------------------------------------------
(* The storage account and the SDK calls the facade delegates to.  These   *)
(* are the collaborator's, not the repository's: they follow the contract  *)
(* the specification gives for it.                                         *)

NoContainer == [exists |-> FALSE, blobs |-> <<>>]

\* s starts with p / ends with p, character by character
StartsWith(s, p) ==
  LET cs == Chars(s)
      cp == Chars(p)
  IN  Len(cp) <= Len(cs) /\ SubSeq(cs, 1, Len(cp)) = cp
EndsWith(s, p) ==
  LET cs == Chars(s)
      cp == Chars(p)
  IN  Len(cp) <= Len(cs) /\ SubSeq(cs, Len(cs) - Len(cp) + 1, Len(cs)) = cp

\* position of the blob called name in a container's blob sequence, 0 if none
IndexOf(blobs, name) ==
  IF \E i \in 1..Len(blobs) : blobs[i].name = name
    THEN CHOOSE i \in 1..Len(blobs) : blobs[i].name = name
    ELSE 0

Names(blobs) == [i \in 1..Len(blobs) |-> blobs[i].name]

\* the outcome of one SDK call: a value and the account after it, or an exception
SdkOk(acct, v)  == [ok |-> TRUE, acct |-> acct, value |-> v, exc |-> Exc("", <<>>, <<>>)]
SdkErr(acct, e) == [ok |-> FALSE, acct |-> acct, value |-> None, exc |-> e]

\* a transport failure; any SDK call may end this way
ServiceDown == CollabExc("ServiceRequestError", "connection timed out")

\* BlobServiceClient.from_connection_string: a handle on the account, no request sent
Sdk_from_connection_string(conn) == [conn |-> conn]

\* BlobServiceClient.get_container_client: a lazy reference, no request sent
Sdk_get_container_client(service, name) == [service |-> service, container |-> name]

\* BlobServiceClient.list_containers
Sdk_list_containers(acct) ==
  SdkOk(acct, SelectSeq(ContainerOrder, LAMBDA c : acct[c].exists))

\* BlobServiceClient.create_container
Sdk_create_container(acct, name) ==
  IF acct[name].exists
    THEN SdkErr(acct, CollabExc("ResourceExistsError", "ContainerAlreadyExists"))
    ELSE SdkOk([acct EXCEPT ![name] = [exists |-> TRUE, blobs |-> <<>>]], None)

\* BlobServiceClient.delete_container: the container goes with all its blobs
Sdk_delete_container(acct, name) ==
  IF ~acct[name].exists
    THEN SdkErr(acct, CollabExc("ResourceNotFoundError", "ContainerNotFound"))
    ELSE SdkOk([acct EXCEPT ![name] = NoContainer], None)

\* ContainerClient.list_blobs(name_starts_with, name_ends_with), fully iterated:
\* the blobs' names in the container's own order, filtered
Sdk_list_blobs(acct, client, starts, ends) ==
  LET c == acct[client.container]
      keep(n) == /\ (starts # None => StartsWith(n, starts))
                 /\ (ends # None => EndsWith(n, ends))
  IN  IF ~c.exists
        THEN SdkErr(acct, CollabExc("ResourceNotFoundError", "ContainerNotFound"))
        ELSE SdkOk(acct, SelectSeq(Names(c.blobs), keep))

\* BlobClient.upload_blob(data, overwrite): text is stored as its bytes
Sdk_upload_blob(acct, client, name, bytes, overwrite) ==
  LET c == acct[client.container]
      i == IndexOf(c.blobs, name)
      b == [name |-> name, content |-> bytes]
  IN  IF ~c.exists
        THEN SdkErr(acct, CollabExc("ResourceNotFoundError", "ContainerNotFound"))
      ELSE IF i # 0 /\ ~overwrite
        THEN SdkErr(acct, CollabExc("ResourceExistsError", "BlobAlreadyExists"))
      ELSE IF i # 0
        THEN SdkOk([acct EXCEPT ![client.container].blobs[i] = b], None)
      ELSE SdkOk([acct EXCEPT ![client.container].blobs = Append(@, b)], None)

\* BlobClient.download_blob().readall()
Sdk_download_blob(acct, client, name) ==
  LET c == acct[client.container]
      i == IndexOf(c.blobs, name)
  IN  IF ~c.exists
        THEN SdkErr(acct, CollabExc("ResourceNotFoundError", "ContainerNotFound"))
      ELSE IF i = 0
        THEN SdkErr(acct, CollabExc("ResourceNotFoundError", "BlobNotFound"))
      ELSE SdkOk(acct, c.blobs[i].content)

\* BlobClient.delete_blob
Sdk_delete_blob(acct, client, name) ==
  LET c == acct[client.container]
      i == IndexOf(c.blobs, name)
      rest == [j \in 1..(Len(c.blobs) - 1) |->
                 IF j < i THEN c.blobs[j] ELSE c.blobs[j + 1]]
  IN  IF ~c.exists
        THEN SdkErr(acct, CollabExc("ResourceNotFoundError", "ContainerNotFound"))
      ELSE IF i = 0
        THEN SdkErr(acct, CollabExc("ResourceNotFoundError", "BlobNotFound"))
      ELSE SdkOk([acct EXCEPT ![client.container].blobs = rest], None)

\* a delegated call that the transport may cut short: fault names the call
\* that fails in this handler ("none": no transport failure)
Try(fault, call, result, acct) ==
  IF fault = call THEN SdkErr(acct, ServiceDown) ELSE result

----------------------------------------------------------------------------
(* The facade object *)

\* an attribute that was never assigned
Unset == "<unset>"

\* no facade yet: construction has not been tried, or it raised
NoFacade ==
  [constructed |-> FALSE, connection_string |-> None, container_name |-> None,
   blob_service_client |-> Sdk_from_connection_string(None),
   container_client |-> Sdk_get_container_client(Sdk_from_connection_string(None), None),
   prefix |-> Unset, suffix |-> Unset]

\* the object __init__ leaves behind when it returns
NewFacade(cs, cn, service, client) ==
  [constructed |-> TRUE, connection_string |-> cs, container_name |-> cn,
   blob_service_client |-> service, container_client |-> client,
   prefix |-> Unset, suffix |-> Unset]

\* the environment keys each copy of the class reads for the two credentials
SecretKey(v)    == IF v = "main" THEN "AZURE_STORAGE_CONNECTION_STRING" ELSE "connection_string"
ContainerKey(v) == IF v = "main" THEN "CONTAINER_NAME" ELSE "container"

MissingSecretText    == "Missing connection string. Check .env file or parameters"
MissingContainerText == "Missing container name. Check .env file or parameters"
MissingEitherText    ==
  "Missing required credentials. Provide either parameters or ensure 'connection_string' and 'container' are defined in the .env file."

ConstructFaults == {"none", "from_connection_string", "get_container_client"}

\* what the SDK raises when it refuses to build a handle
HandleError(call) ==
  IF call = "from_connection_string"
    THEN CollabExc("ValueError", "Connection string is either blank or malformed.")
    ELSE CollabExc("TypeError", "container name is not a string")

\* InitMain with a fault seeded: the constructor asks the account whether the
\* container is there, and gives up when it is not
InitMainChecksContainer(connection_string, container_name, fault) ==
  LET cs == PyOr(connection_string, getenv(SecretKey("main")))
      cn == PyOr(container_name, getenv(ContainerKey("main")))
      service == Sdk_from_connection_string(cs)
      client  == Sdk_get_container_client(service, cn)
      first   == <<"from_connection_string">>
      both    == <<"from_connection_string", "get_container_client">>
      gone    == CollabExc("ResourceNotFoundError", "ContainerNotFound")
  IN  IF ~Truthy(cs)
        THEN [self |-> NoFacade,
              out |-> Raised(Exc("ValueError", <<MissingSecretText>>, <<>>), <<>>)]
      ELSE IF ~Truthy(cn)
        THEN [self |-> NoFacade,
              out |-> Raised(Exc("ValueError", <<MissingContainerText>>, <<>>), <<>>)]
      ELSE IF fault = "from_connection_string"
        THEN [self |-> NoFacade,
              out |-> Raised(Exc("ConnectionError",
                                 FString("Failed to connect to Azure Storage", HandleError(fault)),
                                 HandleError(fault).msg), first)]
      ELSE IF fault = "get_container_client"
        THEN [self |-> NoFacade,
              out |-> Raised(Exc("ConnectionError",
                                 FString("Failed to connect to Azure Storage", HandleError(fault)),
                                 HandleError(fault).msg), both)]
      ELSE IF ~account[cn].exists
        THEN [self |-> NoFacade,
              out |-> Raised(Exc("ConnectionError",
                                 FString("Failed to connect to Azure Storage", gone),
                                 gone.msg), Append(both, "exists"))]
      ELSE [self |-> NewFacade(cs, cn, service, client),
            out |-> Returned(None, Append(both, "exists"))]

\* AzureBlobStorage.__init__ of src/azure_integrator.py
InitMain(connection_string, container_name, fault) ==
  LET cs == PyOr(connection_string, getenv(SecretKey("main")))
      cn == PyOr(container_name, getenv(ContainerKey("main")))
      service == Sdk_from_connection_string(cs)
      client  == Sdk_get_container_client(service, cn)
      first   == <<"from_connection_string">>
      both    == <<"from_connection_string", "get_container_client">>
  IN  IF ~Truthy(cs)
        THEN [self |-> NoFacade,
              out |-> Raised(Exc("ValueError", <<MissingSecretText>>, <<>>), <<>>)]
      ELSE IF ~Truthy(cn)
        THEN [self |-> NoFacade,
              out |-> Raised(Exc("ValueError", <<MissingContainerText>>, <<>>), <<>>)]
      ELSE IF fault = "from_connection_string"
        THEN [self |-> NoFacade,
              out |-> Raised(Exc("ConnectionError",
                                 FString("Failed to connect to Azure Storage", HandleError(fault)),
                                 HandleError(fault).msg), first)]
      ELSE IF fault = "get_container_client"
        THEN [self |-> NoFacade,
              out |-> Raised(Exc("ConnectionError",
                                 FString("Failed to connect to Azure Storage", HandleError(fault)),
                                 HandleError(fault).msg), both)]
      ELSE [self |-> NewFacade(cs, cn, service, client), out |-> Returned(None, both)]

\* AzureBlobStorage.__init__ of the drafts (v is "pkg" or "part"): one check
\* for both credentials, and no try around the two handles
InitDraft(v, connection_string, container_name, fault) ==
  LET cs == PyOr(connection_string, getenv(SecretKey(v)))
      cn == PyOr(container_name, getenv(ContainerKey(v)))
      service == Sdk_from_connection_string(cs)
      client  == Sdk_get_container_client(service, cn)
      first   == <<"from_connection_string">>
      both    == <<"from_connection_string", "get_container_client">>
  IN  IF ~Truthy(cs) \/ ~Truthy(cn)
        THEN [self |-> NoFacade,
              out |-> Raised(Exc("ValueError", <<MissingEitherText>>, <<>>), <<>>)]
      ELSE IF fault = "from_connection_string"
        THEN [self |-> NoFacade, out |-> Raised(HandleError(fault), first)]
      ELSE IF fault = "get_container_client"
        THEN [self |-> NoFacade, out |-> Raised(HandleError(fault), both)]
      ELSE [self |-> NewFacade(cs, cn, service, client), out |-> Returned(None, both)]

\* the constructor of the copy in use
Constructor(v, connection_string, container_name, fault) ==
  IF v = "main"
    THEN InitMain(connection_string, container_name, fault)
    ELSE InitDraft(v, connection_string, container_name, fault)

----------------------------------------------------------------------------
(* The operations of src/azure_integrator.py.  Each takes the facade, the  *)
(* account, its arguments and the delegated call the transport lets fail,  *)
(* and gives the facade and the account after the call and its outcome.    *)

After(self, acct, out) == [self |-> self, acct |-> acct, out |-> out]

\* except Exception as e: raise RuntimeError(f"{head}: {str(e)}")
Rewrap(head, e) == Exc("RuntimeError", FString(head, e), e.origin)

\* blob_list(self)
blob_list(self, acct, fault) ==
  LET r == Try(fault, "list_blobs",
               Sdk_list_blobs(acct, self.container_client, None, None), acct)
      calls == <<"list_blobs">>
  IN  IF r.ok
        THEN After(self, r.acct, Returned(r.value, calls))
        ELSE After(self, r.acct, Raised(Rewrap("Error listing blobs", r.exc), calls))

\* create_container with a fault seeded: the existence check is skipped
create_container_unchecked(self, acct, new_container, fault) ==
  LET l == Try(fault, "list_containers", Sdk_list_containers(acct), acct)
      c == Try(fault, "create_container", Sdk_create_container(l.acct, new_container), l.acct)
  IN  IF ~l.ok
        THEN After(self, l.acct,
                   Raised(Rewrap("Error creating container", l.exc), <<"list_containers">>))
      ELSE IF c.ok
        THEN After(self, c.acct,
                   Returned(<<"Container", new_container, "created successfully">>,
                            <<"list_containers", "create_container">>))
      ELSE After(self, c.acct,
                 Raised(Rewrap("Error creating container", c.exc),
                        <<"list_containers", "create_container">>))

\* create_container with a fault seeded: the facade is rebound to the new container
create_container_rebinds(self, acct, new_container, fault) ==
  LET l == Try(fault, "list_containers", Sdk_list_containers(acct), acct)
      c == Try(fault, "create_container", Sdk_create_container(l.acct, new_container), l.acct)
      existing == {l.value[i] : i \in 1..Len(l.value)}
      bound == [self EXCEPT !.container_name = new_container]
  IN  IF ~l.ok
        THEN After(self, l.acct,
                   Raised(Rewrap("Error creating container", l.exc), <<"list_containers">>))
      ELSE IF new_container \in existing
        THEN After(self, l.acct,
                   Returned(<<"Container", new_container, "already exists">>,
                            <<"list_containers">>))
      ELSE IF c.ok
        THEN After(bound, c.acct,
                   Returned(<<"Container", new_container, "created successfully">>,
                            <<"list_containers", "create_container">>))
      ELSE After(self, c.acct,
                 Raised(Rewrap("Error creating container", c.exc),
                        <<"list_containers", "create_container">>))

\* create_container(self, new_container)
create_container(self, acct, new_container, fault) ==
  LET l == Try(fault, "list_containers", Sdk_list_containers(acct), acct)
      c == Try(fault, "create_container", Sdk_create_container(l.acct, new_container), l.acct)
      existing == {l.value[i] : i \in 1..Len(l.value)}
  IN  IF ~l.ok
        THEN After(self, l.acct,
                   Raised(Rewrap("Error creating container", l.exc), <<"list_containers">>))
      ELSE IF new_container \in existing
        THEN After(self, l.acct,
                   Returned(<<"Container", new_container, "already exists">>,
                            <<"list_containers">>))
      ELSE IF c.ok
        THEN After(self, c.acct,
                   Returned(<<"Container", new_container, "created successfully">>,
                            <<"list_containers", "create_container">>))
      ELSE After(self, c.acct,
                 Raised(Rewrap("Error creating container", c.exc),
                        <<"list_containers", "create_container">>))

\* delete_container(self, container_to_delete)
delete_container(self, acct, container_to_delete, fault) ==
  LET r == Try(fault, "delete_container", Sdk_delete_container(acct, container_to_delete), acct)
      calls == <<"delete_container">>
  IN  IF r.ok
        THEN After(self, r.acct,
                   Returned(<<"Container", container_to_delete, "deleted successfully">>, calls))
        ELSE After(self, r.acct, Raised(Rewrap("Error deleting container", r.exc), calls))

\* list_containers(self)
list_containers(self, acct, fault) ==
  LET r == Try(fault, "list_containers", Sdk_list_containers(acct), acct)
      calls == <<"list_containers">>
  IN  IF r.ok
        THEN After(self, r.acct, Returned(r.value, calls))
        ELSE After(self, r.acct, Raised(Rewrap("Error listing containers", r.exc), calls))

\* upload_blob(self, blob_name, data, overwrite=False)
upload_blob(self, acct, blob_name, data, overwrite, fault) ==
  LET r == Try(fault, "upload_blob",
               Sdk_upload_blob(acct, self.container_client, blob_name, data.bytes, overwrite),
               acct)
      calls == <<"get_blob_client", "upload_blob">>
  IN  IF r.ok
        THEN After(self, r.acct, Returned(<<"Blob", blob_name, "uploaded successfully">>, calls))
        ELSE After(self, r.acct, Raised(Rewrap("Error uploading blob", r.exc), calls))

\* download_blob with a fault seeded: readall() is left out, the caller gets the
\* download stream instead of the bytes
download_blob_no_readall(self, acct, blob_name, fault) ==
  LET r == Try(fault, "download_blob",
               Sdk_download_blob(acct, self.container_client, blob_name), acct)
      calls == <<"get_blob_client", "download_blob">>
  IN  IF r.ok
        THEN After(self, r.acct, Returned([fmt |-> "stream", data |-> 0], calls))
        ELSE After(self, r.acct, Raised(Rewrap("Error downloading blob", r.exc), calls))

\* download_blob(self, blob_name)
download_blob(self, acct, blob_name, fault) ==
  LET r == Try(fault, "download_blob",
               Sdk_download_blob(acct, self.container_client, blob_name), acct)
      calls == <<"get_blob_client", "download_blob">>
  IN  IF r.ok
        THEN After(self, r.acct, Returned(r.value, calls))
        ELSE After(self, r.acct, Raised(Rewrap("Error downloading blob", r.exc), calls))

\* delete_blob with a fault seeded: the blob client is taken but delete_blob() is
\* never called on it
delete_blob_not_called(self, acct, blob_name, fault) ==
  After(self, acct,
        Returned(<<"Blob", blob_name, "deleted successfully">>, <<"get_blob_client">>))

\* delete_blob(self, blob_name)
delete_blob(self, acct, blob_name, fault) ==
  LET r == Try(fault, "delete_blob",
               Sdk_delete_blob(acct, self.container_client, blob_name), acct)
      calls == <<"get_blob_client", "delete_blob">>
  IN  IF r.ok
        THEN After(self, r.acct, Returned(<<"Blob", blob_name, "deleted successfully">>, calls))
        ELSE After(self, r.acct, Raised(Rewrap("Error deleting blob", r.exc), calls))

----------------------------------------------------------------------------
(* The tabular codecs (pandas), as far as the facade uses them, and the    *)
(* conversions of src/azure_integrator.py built on them.                   *)

\* a codec call: a value or an exception
CodecOk(v)  == [ok |-> TRUE, value |-> v, exc |-> Exc("", <<>>, <<>>)]
CodecErr(e) == [ok |-> FALSE, value |-> None, exc |-> e]

\* a codec failure that does not depend on the input (a missing engine, say)
CodecDown == CollabExc("ImportError", "codec engine unavailable")

\* dataframe.to_parquet / to_excel / to_csv with index=False: the bytes hold
\* the columns and not the row index, so they are those of the table with
\* the same columns and the default index
Encode(fmt, dataframe, fault) ==
  IF fault = "encode" THEN CodecErr(CodecDown)
  ELSE CodecOk([fmt |-> fmt, data |-> DefaultIndexed(dataframe)])

\* pd.read_parquet / pd.read_csv: the table the bytes hold (with the default
\* row index), when they hold one in that format
Decode(fmt, bytes, fault) ==
  IF fault = "decode" THEN CodecErr(CodecDown)
  ELSE IF bytes.fmt # fmt THEN CodecErr(CollabExc("ValueError", "cannot parse the bytes"))
  ELSE CodecOk(bytes.data)

\* the exception a raised outcome stands for
ExcOf(out) == Exc(out.kind, out.msg, out.origin)

\* download, then decode, inside one try (parquet_to_df and csv_to_df)
DownloadAndDecode(self, acct, blob_name, fault, fmt, head) ==
  LET d == download_blob(self, acct, blob_name, fault)
      t == Decode(fmt, d.out.value[1], fault)
  IN  IF d.out.status = "raised"
        THEN After(self, d.acct, Raised(Rewrap(head, ExcOf(d.out)), d.out.calls))
      ELSE IF ~t.ok
        THEN After(self, d.acct, Raised(Rewrap(head, t.exc), Append(d.out.calls, "decode")))
      ELSE After(self, d.acct, Returned(t.value, Append(d.out.calls, "decode")))

\* encode, then upload with overwrite=True, inside one try
\* (df_to_excel, df_to_parquet, df_to_csv); type is what the encoder hands
\* upload_blob: "bytes" (a buffer's value) or "str"
EncodeAndUpload(self, acct, dataframe, blob_name, fault, fmt, type, head) ==
  LET e == Encode(fmt, dataframe, fault)
      u == upload_blob(self, acct, blob_name, [type |-> type, bytes |-> e.value], TRUE, fault)
  IN  IF ~e.ok
        THEN After(self, acct, Raised(Rewrap(head, e.exc), <<"encode">>))
      ELSE IF u.out.status = "raised"
        THEN After(self, u.acct, Raised(Rewrap(head, ExcOf(u.out)), <<"encode">> \o u.out.calls))
      ELSE After(self, u.acct, Returned(u.out.value[1], <<"encode">> \o u.out.calls))

\* parquet_to_df(self, blob_name)
parquet_to_df(self, acct, blob_name, fault) ==
  DownloadAndDecode(self, acct, blob_name, fault, "parquet",
                    "Error converting parquet to DataFrame")

\* df_to_excel(self, dataframe, blob_name)
df_to_excel(self, acct, dataframe, blob_name, fault) ==
  EncodeAndUpload(self, acct, dataframe, blob_name, fault, "xlsx", "bytes",
                  "Error converting DataFrame to Excel")

\* df_to_parquet with a fault seeded: the upload is made with overwrite=False
df_to_parquet_no_overwrite(self, acct, dataframe, blob_name, fault) ==
  LET e == Encode("parquet", dataframe, fault)
      u == upload_blob(self, acct, blob_name, [type |-> "bytes", bytes |-> e.value], FALSE, fault)
      head == "Error converting DataFrame to Parquet"
  IN  IF ~e.ok
        THEN After(self, acct, Raised(Rewrap(head, e.exc), <<"encode">>))
      ELSE IF u.out.status = "raised"
        THEN After(self, u.acct, Raised(Rewrap(head, ExcOf(u.out)), <<"encode">> \o u.out.calls))
      ELSE After(self, u.acct, Returned(u.out.value[1], <<"encode">> \o u.out.calls))

\* df_to_parquet(self, dataframe, blob_name)
df_to_parquet(self, acct, dataframe, blob_name, fault) ==
  EncodeAndUpload(self, acct, dataframe, blob_name, fault, "parquet", "bytes",
                  "Error converting DataFrame to Parquet")

\* csv_to_df(self, blob_name)
csv_to_df(self, acct, blob_name, fault) ==
  DownloadAndDecode(self, acct, blob_name, fault, "csv",
                    "Error converting CSV to DataFrame")

\* df_to_csv(self, dataframe, blob_name)
df_to_csv(self, acct, dataframe, blob_name, fault) ==
  EncodeAndUpload(self, acct, dataframe, blob_name, fault, "csv", "str",
                  "Error converting DataFrame to CSV")

----------------------------------------------------------------------------
(* The operations of the drafts: no try around any delegated call *)

\* list_blobs with a fault seeded: the filters are not passed on
list_blobs_unfiltered(self, acct, prefix, suffix, fault) ==
  LET stored == [self EXCEPT !.prefix = PyOr(prefix, getenv("prefix")),
                             !.suffix = PyOr(suffix, getenv("suffix"))]
      r == Try(fault, "list_blobs",
               Sdk_list_blobs(acct, self.container_client, None, None), acct)
      calls == <<"list_blobs">>
  IN  IF r.ok
        THEN After(stored, r.acct, Returned(r.value, calls))
        ELSE After(stored, r.acct, Raised(r.exc, calls))

\* list_blobs(self, prefix=None, suffix=None) of the drafts: the environment's
\* defaults are stored on the facade, the arguments are what is passed on
list_blobs(self, acct, prefix, suffix, fault) ==
  LET stored == [self EXCEPT !.prefix = PyOr(prefix, getenv("prefix")),
                             !.suffix = PyOr(suffix, getenv("suffix"))]
      r == Try(fault, "list_blobs",
               Sdk_list_blobs(acct, self.container_client, prefix, suffix), acct)
      calls == <<"list_blobs">>
  IN  IF r.ok
        THEN After(stored, r.acct, Returned(r.value, calls))
        ELSE After(stored, r.acct, Raised(r.exc, calls))

\* parquet_to_df(self, blob_name) of "pkg": a docstring and nothing else
parquet_to_df_draft(self, acct, blob_name) == After(self, acct, Returned(None, <<>>))

\* df_to_excel(self, blob) of "pkg": for every blob of the container it calls
\* self.bsc.load_blob_to_dataframe, which BlobServiceClient does not have
df_to_excel_draft(self, acct, fault) ==
  LET r == Try(fault, "list_blobs",
               Sdk_list_blobs(acct, self.container_client, None, None), acct)
      calls == <<"list_blobs">>
      missing == Exc("AttributeError",
                     <<"type object 'BlobServiceClient' has no attribute 'load_blob_to_dataframe'">>,
                     <<>>)
  IN  IF ~r.ok THEN After(self, r.acct, Raised(r.exc, calls))
      ELSE IF Len(r.value) > 0 THEN After(self, r.acct, Raised(missing, calls))
      ELSE After(self, r.acct, Returned(None, calls))

----------------------------------------------------------------------------
(* The state machine *)

Keys == {"AZURE_STORAGE_CONNECTION_STRING", "CONTAINER_NAME",
         "connection_string", "container", "prefix", "suffix"}

\* the values a process environment (with the .env file loaded) can give the
\* keys; a key the copy in use never reads is left unset
Envs(v, secrets, containers) ==
  {e \in [Keys -> secrets \cup containers \cup {None, "a/", "/1"}] :
     /\ e[SecretKey(v)] \in secrets
     /\ e[ContainerKey(v)] \in containers
     /\ e["prefix"] \in (IF v = "main" THEN {None} ELSE {None, "a/"})
     /\ e["suffix"] \in (IF v = "main" THEN {None} ELSE {None, "/1"})
     /\ \A k \in Keys \ {SecretKey(v), ContainerKey(v), "prefix", "suffix"} : e[k] = None}

\* the blob names a copy is explored with: all three for the drafts, which
\* only list; two for the full class, which also writes
BlobNamesOf(v) == IF v = "main" THEN {"a/1", "b/1"} ELSE BlobNames

\* the blob sequences the container c1 can hold when the process starts
InitBlobs(v) ==
  LET blob(n) == [name |-> n, content |-> [fmt |-> "raw", data |-> 1]]
      all == {<<>>, <<blob("a/1")>>, <<blob("a/2"), blob("b/1")>>,
              <<blob("a/1"), blob("a/2"), blob("b/1")>>,
              <<blob("b/1"), blob("a/2"), blob("a/1")>>}
  IN  {s \in all : \A i \in 1..Len(s) : s[i].name \in BlobNamesOf(v)}

InitAccounts(v) ==
  {a \in [ContainerNames -> {NoContainer} \cup [exists : {TRUE}, blobs : InitBlobs(v)]] :
     a["c2"].blobs = <<>>}

NoCall ==
  [op |-> "none", args |-> <<>>, fault |-> "none", status |-> "ok", kind |-> "", msg |-> <<>>,
   origin |-> <<>>, value |-> <<>>, calls |-> <<>>]

\* the start of a process whose environment sets neither credential (it may
\* set the drafts' prefix and suffix keys)
Init ==
  /\ variant \in Variants
  /\ env \in Envs(variant, {None}, {None})
  /\ account \in InitAccounts(variant)
  /\ facade = NoFacade
  /\ last = NoCall

\* the start of a process in any environment
InitAnyEnv ==
  /\ variant \in Variants
  /\ env \in Envs(variant, SecretEnvs, ContainerEnvs)
  /\ account \in InitAccounts(variant)
  /\ facade = NoFacade
  /\ last = NoCall

\* one call of op with args, during which the delegated call named by fault
\* (if any) failed in transit, ended as r says
Call(op, args, fault, r) ==
  /\ facade' = r.self
  /\ account' = r.acct
  /\ last' = [op |-> op, args |-> args, fault |-> fault, status |-> r.out.status, kind |-> r.out.kind,
              msg |-> r.out.msg, origin |-> r.out.origin, value |-> r.out.value,
              calls |-> r.out.calls]
  /\ UNCHANGED <<variant, env>>

Construct ==
  /\ ~facade.constructed
  /\ \E cs \in SecretArgs, cn \in ContainerArgs, f \in ConstructFaults :
       LET r == Constructor(variant, cs, cn, f)
       IN  Call("__init__", <<cs, cn>>, f, After(r.self, account, r.out))

BlobList ==
  /\ facade.constructed /\ variant = "main"
  /\ \E f \in {"none", "list_blobs"} :
       Call("blob_list", <<>>, f, blob_list(facade, account, f))

CreateContainer ==
  /\ facade.constructed /\ variant = "main"
  /\ \E n \in ContainerNames, f \in {"none", "list_containers", "create_container"} :
       Call("create_container", <<n>>, f, create_container(facade, account, n, f))

DeleteContainer ==
  /\ facade.constructed /\ variant = "main"
  /\ \E n \in ContainerNames, f \in {"none", "delete_container"} :
       Call("delete_container", <<n>>, f, delete_container(facade, account, n, f))

ListContainers ==
  /\ facade.constructed /\ variant = "main"
  /\ \E f \in {"none", "list_containers"} :
       Call("list_containers", <<>>, f, list_containers(facade, account, f))

UploadBlob ==
  /\ facade.constructed /\ variant = "main"
  /\ \E n \in BlobNamesOf(variant), d \in UploadData, o \in BOOLEAN, f \in {"none", "upload_blob"} :
       Call("upload_blob", <<n, d, o>>, f, upload_blob(facade, account, n, d, o, f))

DownloadBlob ==
  /\ facade.constructed /\ variant = "main"
  /\ \E n \in BlobNamesOf(variant), f \in {"none", "download_blob"} :
       Call("download_blob", <<n>>, f, download_blob(facade, account, n, f))

DeleteBlob ==
  /\ facade.constructed /\ variant = "main"
  /\ \E n \in BlobNamesOf(variant), f \in {"none", "delete_blob"} :
       Call("delete_blob", <<n>>, f, delete_blob(facade, account, n, f))

ParquetToDf ==
  /\ facade.constructed /\ variant = "main"
  /\ \E n \in BlobNamesOf(variant), f \in {"none", "download_blob", "decode"} :
       Call("parquet_to_df", <<n>>, f, parquet_to_df(facade, account, n, f))

DfToExcel ==
  /\ facade.constructed /\ variant = "main"
  /\ \E t \in DataFrames, n \in BlobNamesOf(variant), f \in {"none", "encode", "upload_blob"} :
       Call("df_to_excel", <<t, n>>, f, df_to_excel(facade, account, t, n, f))

DfToParquet ==
  /\ facade.constructed /\ variant = "main"
  /\ \E t \in DataFrames, n \in BlobNamesOf(variant), f \in {"none", "encode", "upload_blob"} :
       Call("df_to_parquet", <<t, n>>, f, df_to_parquet(facade, account, t, n, f))

CsvToDf ==
  /\ facade.constructed /\ variant = "main"
  /\ \E n \in BlobNamesOf(variant), f \in {"none", "download_blob", "decode"} :
       Call("csv_to_df", <<n>>, f, csv_to_df(facade, account, n, f))

DfToCsv ==
  /\ facade.constructed /\ variant = "main"
  /\ \E t \in DataFrames, n \in BlobNamesOf(variant), f \in {"none", "encode", "upload_blob"} :
       Call("df_to_csv", <<t, n>>, f, df_to_csv(facade, account, t, n, f))

ListBlobs ==
  /\ facade.constructed /\ variant \in {"pkg", "part"}
  /\ \E p \in Prefixes \cup {None}, x \in Suffixes \cup {None}, f \in {"none", "list_blobs"} :
       Call("list_blobs", <<p, x>>, f, list_blobs(facade, account, p, x, f))

ParquetToDfDraft ==
  /\ facade.constructed /\ variant = "pkg"
  /\ \E n \in BlobNamesOf(variant) :
       Call("parquet_to_df", <<n>>, "none", parquet_to_df_draft(facade, account, n))

DfToExcelDraft ==
  /\ facade.constructed /\ variant = "pkg"
  /\ \E f \in {"none", "list_blobs"} :
       Call("df_to_excel", <<>>, f, df_to_excel_draft(facade, account, f))

Next ==
  \/ Construct
  \/ BlobList
  \/ CreateContainer
  \/ DeleteContainer
  \/ ListContainers
  \/ UploadBlob
  \/ DownloadBlob
  \/ DeleteBlob
  \/ ParquetToDf
  \/ DfToExcel
  \/ DfToParquet
  \/ CsvToDf
  \/ DfToCsv
  \/ ListBlobs
  \/ ParquetToDfDraft
  \/ DfToExcelDraft

\* the whole life of a facade
Spec == Init /\ [][Next]_vars

\* construction alone, in every environment
SpecConstruct == InitAnyEnv /\ [][Construct]_vars

----------------------------------------------------------------------------
(* Construction: C1 - C4 *)

\* the two arguments of the last constructor call, and what the environment
\* holds for them
SecretArg    == last.args[1]
ContainerArg == last.args[2]
SecretEnv    == env[SecretKey(variant)]
ContainerEnv == env[ContainerKey(variant)]

Constructing == last.op = "__init__"

\* resolution as C1 words it: the argument when one is given, else the
\* environment's value, which is None when the key is not set
GivenFirst(arg, envval) == IF arg # None THEN arg ELSE envval

\* resolution with "given" read as "given and not empty"
NonEmptyFirst(arg, envval) == IF arg \notin {None, ""} THEN arg ELSE envval

\* C1 as stated: a constructed facade holds, for each credential, the
\* argument whenever an argument was given, else the environment's value.
C1_ExplicitAlwaysWins ==
  (Constructing /\ last.status = "ok") =>
    /\ facade.connection_string = GivenFirst(SecretArg, SecretEnv)
    /\ facade.container_name = GivenFirst(ContainerArg, ContainerEnv)

\* C1 amended: each credential resolves, independently of the other, to the
\* argument when a non-empty one is given, else to the environment's value
\* when the key is set, else to nothing; a constructed facade holds the two
\* resolved values, and construction is refused, before any handle is built,
\* exactly when either is None or empty.
C1_NonEmptyArgumentWins ==
  Constructing =>
    LET cs == NonEmptyFirst(SecretArg, SecretEnv)
        cn == NonEmptyFirst(ContainerArg, ContainerEnv)
    IN  /\ last.status = "ok" =>
             facade.connection_string = cs /\ facade.container_name = cn
        /\ (cs \in {None, ""} \/ cn \in {None, ""}) <=>
             (last.status = "raised" /\ last.kind = "ValueError" /\ last.calls = <<>>)

\* C1 witness: both credentials given as arguments and set in the
\* environment to other values; the facade holds the arguments.
C1_Witness ==
  /\ Constructing /\ last.status = "ok"
  /\ SecretArg = "SEC" /\ SecretEnv = "ENVSEC"
  /\ ContainerArg = "c1" /\ ContainerEnv = "c2"
  /\ facade.connection_string = "SEC" /\ facade.container_name = "c1"

\* the credentials an error text names
FieldsNamed(text) ==
  CASE text = MissingSecretText    -> {"secret"}
    [] text = MissingContainerText -> {"container"}
    [] text = MissingEitherText    -> {"secret", "container"}
    [] OTHER                       -> {}

\* the credentials that are absent (None or empty) after resolution
FieldsMissing ==
  {f \in {"secret"} : ~Truthy(PyOr(SecretArg, SecretEnv))}
    \cup {f \in {"container"} : ~Truthy(PyOr(ContainerArg, ContainerEnv))}

\* C2 as stated: when a credential is absent after resolution, construction
\* raises the configuration error (ValueError), its text names a credential
\* that is missing and none that is not, and it names the secret whenever
\* the secret is missing.
C2_MissingFieldNamed ==
  (Constructing /\ FieldsMissing # {}) =>
    /\ last.status = "raised" /\ last.kind = "ValueError"
    /\ FieldsNamed(last.msg[1]) # {}
    /\ FieldsNamed(last.msg[1]) \subseteq FieldsMissing
    /\ ("secret" \in FieldsMissing => "secret" \in FieldsNamed(last.msg[1]))

C4_HandleFailureWrapped ==
  (Constructing /\ last.fault # "none" /\ last.calls # <<>>) =>
    /\ last.status = "raised" /\ last.kind = "ConnectionError"
    /\ last.msg = <<"Failed to connect to Azure Storage">> \o last.origin
    /\ last.origin = HandleError(last.fault).msg
    /\ last.calls = IF last.fault = "from_connection_string"
                      THEN <<"from_connection_string">>
                      ELSE <<"from_connection_string", "get_container_client">>

----------------------------------------------------------------------------
(* The operations: C5 - C10 *)

\* the container the facade is bound to
Bound == facade.container_name

\* whether container c of the account holds a blob called n, and its bytes
HasBlob(acct, c, n)   == acct[c].exists /\ IndexOf(acct[c].blobs, n) # 0
ContentOf(acct, c, n) == acct[c].blobs[IndexOf(acct[c].blobs, n)].content

\* C5: once a facade is constructed, no call changes the container name it
\* is bound to, its account handle or its container handle, whatever the
\* call, its arguments and its outcome.
C5_BindingFixed ==
  [][facade.constructed =>
       /\ facade'.constructed
       /\ facade'.container_name = facade.container_name
       /\ facade'.blob_service_client = facade.blob_service_client
       /\ facade'.container_client = facade.container_client]_vars

\* C5 witness: the facade has deleted the very container it is bound to, and
\* is bound to it still.
C5_Witness ==
  /\ last.op = "delete_container" /\ last.status = "ok"
  /\ last.args[1] = facade.container_name
  /\ facade.container_client.container = last.args[1]
  /\ ~account[facade.container_name].exists

\* the verb each operation of the catalog puts before a failure it reports
Verb(op) ==
  CASE op \in {"blob_list", "list_blobs"} -> "Error listing blobs"
    [] op = "list_containers"  -> "Error listing containers"
    [] op = "create_container" -> "Error creating container"
    [] op = "delete_container" -> "Error deleting container"
    [] op = "upload_blob"      -> "Error uploading blob"
    [] op = "download_blob"    -> "Error downloading blob"
    [] op = "delete_blob"      -> "Error deleting blob"
    [] op = "parquet_to_df"    -> "Error converting parquet to DataFrame"
    [] op = "df_to_excel"      -> "Error converting DataFrame to Excel"
    [] op = "df_to_parquet"    -> "Error converting DataFrame to Parquet"
    [] op = "csv_to_df"        -> "Error converting CSV to DataFrame"
    [] op = "df_to_csv"        -> "Error converting DataFrame to CSV"

\* C6 as stated: whenever an operation fails, it raises the operation error
\* (RuntimeError) whose text is the invoked operation's verb followed by the
\* collaborator's or codec's own description and nothing else.
C6_UniformWrap ==
  (last.op \notin {"none", "__init__"} /\ last.status = "raised") =>
    /\ last.kind = "RuntimeError"
    /\ last.origin # <<>>
    /\ last.msg = <<Verb(last.op)>> \o last.origin

\* C7: create_container lists the account's containers and calls create only
\* for a name that is not among them; unless a delegated call fails in
\* transit it returns, with "created successfully" for a name the account did
\* not have and "already exists" for one it had, and the account has the
\* container afterwards; so a second call with the same name, right after a
\* successful first one, returns "already exists".
C7_CreateIdempotent ==
  [][last'.op = "create_container" =>
       LET n == last'.args[1]
           created == <<"Container", n, "created successfully">>
           exists  == <<"Container", n, "already exists">>
       IN  /\ last'.fault = "none" => last'.status = "ok"
           /\ last'.status = "raised" => last'.origin = ServiceDown.msg
           /\ last'.status = "ok" =>
                /\ last'.value = <<IF account[n].exists THEN exists ELSE created>>
                /\ last'.calls = IF account[n].exists
                                   THEN <<"list_containers">>
                                   ELSE <<"list_containers", "create_container">>
                /\ account'[n].exists
                /\ \A c \in ContainerNames \ {n} : account'[c] = account[c]
                /\ account[n].exists => account'[n] = account[n]
           /\ (last.op = "create_container" /\ last.status = "ok"
                 /\ last.args = last'.args /\ last'.fault = "none")
                => last'.value = <<exists>>]_vars

\* C7 witness: create_container found the name among the account's
\* containers and returned "already exists" without a create call.
C7_Witness ==
  /\ last.op = "create_container" /\ last.status = "ok"
  /\ last.value = <<<<"Container", last.args[1], "already exists">>>>
  /\ last.calls = <<"list_containers">>
  /\ account[last.args[1]].exists

\* the operations that take a blob name and where they take it
NameOf(call) ==
  IF call.op \in {"upload_blob", "download_blob", "delete_blob", "parquet_to_df", "csv_to_df"}
    THEN call.args[1]
  ELSE IF call.op \in {"df_to_excel", "df_to_parquet", "df_to_csv"}
    THEN call.args[2]
  ELSE None

\* operations that touch no blob, or only the blob they are called with
BlobLevel(call) ==
  call.op \in {"blob_list", "list_containers", "upload_blob", "download_blob", "delete_blob",
               "parquet_to_df", "csv_to_df", "df_to_excel", "df_to_parquet", "df_to_csv"}

\* C8 (the full class; the drafts have no upload or download): a successful upload of bytes B to N leaves N holding B; operations on
\* other blobs and listings leave N as it is; and download_blob(N), unless the
\* call fails in transit, returns the bytes N holds: so upload B to N, then
\* download N, returns exactly B.
C8_UploadThenDownload ==
  [][(facade.constructed /\ variant = "main") =>
     /\ (last'.op = "upload_blob" /\ last'.status = "ok") =>
          /\ HasBlob(account', Bound, last'.args[1])
          /\ ContentOf(account', Bound, last'.args[1]) = last'.args[2].bytes
     /\ \A n \in BlobNames :
          (BlobLevel(last') /\ NameOf(last') # n /\ HasBlob(account, Bound, n)) =>
            /\ HasBlob(account', Bound, n)
            /\ ContentOf(account', Bound, n) = ContentOf(account, Bound, n)
     /\ (last'.op = "download_blob" /\ last'.fault = "none"
           /\ HasBlob(account, Bound, last'.args[1])) =>
          /\ last'.status = "ok"
          /\ last'.value = <<ContentOf(account, Bound, last'.args[1])>>
          /\ account' = account
     /\ (last.op = "upload_blob" /\ last.status = "ok" /\ last.args[2].type = "bytes"
           /\ last'.op = "download_blob" /\ last'.args[1] = last.args[1]
           /\ last'.fault = "none") =>
          /\ last'.status = "ok"
          /\ last'.value = <<last.args[2].bytes>>]_vars

\* C8 witness: a download returned payload 2, which no container holds
\* unless upload_blob put it there.
C8_Witness ==
  /\ last.op = "download_blob" /\ last.status = "ok"
  /\ last.value = <<[fmt |-> "raw", data |-> 2]>>
  /\ ContentOf(account, Bound, last.args[1]) = [fmt |-> "raw", data |-> 2]

\* C9 (the full class; the drafts have no delete or download): a successful delete_blob(N) leaves the container without N; only an
\* upload to N (upload_blob or a df_to_* conversion) brings N back; and
\* download_blob of a name the container does not hold raises the operation
\* error (RuntimeError, "Error downloading blob: ...") and returns nothing: so
\* download N after delete N raises.
C9_DeleteThenDownload ==
  [][(facade.constructed /\ variant = "main") =>
     /\ (last'.op = "delete_blob" /\ last'.status = "ok") =>
          ~HasBlob(account', Bound, last'.args[1])
     /\ \A n \in BlobNames :
          (~HasBlob(account, Bound, n) /\ HasBlob(account', Bound, n)) =>
            /\ last'.op \in {"upload_blob", "df_to_excel", "df_to_parquet", "df_to_csv"}
            /\ NameOf(last') = n
     /\ (last'.op = "download_blob" /\ ~HasBlob(account, Bound, last'.args[1])) =>
          /\ last'.status = "raised" /\ last'.kind = "RuntimeError"
          /\ last'.msg[1] = "Error downloading blob"
          /\ last'.value = <<>>
     /\ (last.op = "delete_blob" /\ last.status = "ok"
           /\ last'.op = "download_blob" /\ last'.args[1] = last.args[1]) =>
          /\ last'.status = "raised" /\ last'.kind = "RuntimeError"
          /\ last'.msg[1] = "Error downloading blob"]_vars

\* C9 witness: a download of a blob the (existing) bound container does not
\* hold raised "Error downloading blob: BlobNotFound".
C9_Witness ==
  /\ last.op = "download_blob" /\ last.status = "raised" /\ last.kind = "RuntimeError"
  /\ last.msg = <<"Error downloading blob", "BlobNotFound">>
  /\ account[Bound].exists /\ ~HasBlob(account, Bound, last.args[1])

\* C10: list_blobs called with a prefix p (and no suffix) returns, unless the
\* call fails, exactly the names of the bound container's blobs that start
\* with p, in the container's own order; blob_list returns all the names in
\* that order; neither changes the account.
C10_ListWithPrefix ==
  LET names == Names(account[Bound].blobs)
      p == last.args[1]
  IN  /\ (last.op = "list_blobs" /\ last.args[1] # None /\ last.args[2] = None) =>
          /\ (last.fault = "none" /\ account[Bound].exists) => last.status = "ok"
          /\ last.status = "ok" =>
               last.value = <<SelectSeq(names, LAMBDA n : StartsWith(n, p))>>
      /\ (last.op = "blob_list" /\ last.status = "ok") => last.value = <<names>>

\* C10 witness: the container holds b/1, a/2, a/1 in that order and
\* list_blobs with prefix a/ returned a/2, a/1.
C10_Witness ==
  /\ last.op = "list_blobs" /\ last.status = "ok"
  /\ last.args = <<"a/", None>>
  /\ Names(account[Bound].blobs) = <<"b/1", "a/2", "a/1">>
  /\ last.value = <<<<"a/2", "a/1">>>>

----------------------------------------------------------------------------
(* Listing defaults, the tabular round trip and the frame: C11 - C13 *)

\* the filter a listing is to apply for one of its two arguments: the
\* argument when the caller gave one, the environment's default otherwise
FilterInEffect(arg, key) == IF arg # None THEN arg ELSE env[key]

\* C11 as stated: a successful list_blobs returns the bound container's names
\* filtered by the prefix in effect and by the suffix in effect, where a
\* filter left out of the call is the one the environment defines under
\* 'prefix' (resp. 'suffix'), and a filter given in the call overrides it.
C11_EnvDefaultFilters ==
  LET names == Names(account[Bound].blobs)
      p == FilterInEffect(last.args[1], "prefix")
      x == FilterInEffect(last.args[2], "suffix")
      keep(n) == /\ (p # None => StartsWith(n, p))
                 /\ (x # None => EndsWith(n, x))
  IN  (last.op = "list_blobs" /\ last.status = "ok") =>
        last.value = <<SelectSeq(names, keep)>>

C13_FacadeUnchanged ==
  [][facade.constructed => facade' = facade]_vars

====
